---- MODULE Spec2Model ----
(***************************************************************************)
(* Storyboard video pipeline of opencode-nanobanana:                       *)
(*   generateStoryboardVideo  (src/tools/video/storyboard-video.ts)        *)
(*   concatenateVideos, addAudioTrack (src/utils/ffmpeg.ts)                *)
(* One run of generateStoryboardVideo is modelled step by step.  The two   *)
(* versions of the scene loop kept in the repository (the sequential for   *)
(* loop and the scenes.map / Promise.all version) are both modelled; the   *)
(* variable `variant` says which one the run executes.                     *)
(* Volumes and durations are counted in tenths (10 is 1.0).               *)
(***************************************************************************)
EXTENDS Integers, Sequences, FiniteSets, TLC

\* ---------------------------------------------------------------- bounds
MaxScenes == 3
MaxClips == 3
MaxClock == 2
RunScenes == 2
ShortClipDuration == 20
LongTransitionDuration == 30
MaxPolls == 3

\* ------------------------------------------------------ program constants
MaxReferenceImages == 3
DefaultMusicVolume == 3
VolumeMin == 0
VolumeMax == 10
DefaultTransitionDuration == 5
SceneDuration == 80
Epoch == 0

\* ------------------------------------------------------------ input sets
Variants == {"sequential", "parallel"}
Transitions == {"cut", "crossfade", "fade"}
NoRefs == -1
ReferenceChoices == {NoRefs} \cup (0 .. MaxReferenceImages + 1)
VolumeChoices == {VolumeMin - 1, VolumeMin, DefaultMusicVolume, VolumeMax, VolumeMax + 1}
DurationChoices == {ShortClipDuration, SceneDuration}
TransitionDurationChoices == {DefaultTransitionDuration, LongTransitionDuration}
Runs == {1, 2}

\* ----------------------------------------------------------------- paths
\* a path is its kind, the scene index in its name and the Date.now() in its name
NullPath == [kind |-> "null", n |-> 0, at |-> Epoch]
OutputPath == [kind |-> "output", n |-> 0, at |-> Epoch]
StitchedTempPath == [kind |-> "stitched", n |-> 0, at |-> Epoch]
MusicPath == [kind |-> "music", n |-> 0, at |-> Epoch]
\* join(tmpdir(), `scene-${index}-${Date.now()}.mp4`)
TempPath(index, time) == [kind |-> "scene", n |-> index, at |-> time]

VARIABLES
    scenes,             \* options.scenes.length
    variant,            \* which scene loop the run executes
    referenceImages,    \* options.referenceImages: NoRefs or its length
    backgroundMusic,    \* TRUE when options.backgroundMusic is supplied
    musicVolume,        \* options.musicVolume, in tenths
    transition,         \* options.transition
    pc,                 \* position of the run
    error,              \* error the run rejected with, "none" otherwise
    thrown,             \* error raised inside the try block, pending the finally
    ffmpegChecks,       \* calls of checkFfmpegInstalled
    ffmpegAvailable,    \* what checkFfmpegInstalled answered
    refReads,           \* readFile calls on reference images
    loadedReferences,   \* number of loaded references, 0 when undefined
    sceneState,         \* per scene: idle, generating, writing, ok, failed
    genCalls,           \* per scene: generation calls issued
    genKind,            \* per scene: the provider call used and the references passed
    completionOrder,    \* scene indices in the order their callbacks settled
    sceneResults,       \* the SceneResult array
    videoPaths,         \* clip list built for concatenateVideos
    stitchedVideoPath,  \* destination handed to concatenateVideos
    files,              \* paths present on disk
    written,            \* temporary clip paths this run has written
    unlinked,           \* paths this run has unlinked
    concatLog,          \* one record per concatenateVideos call
    audioLog,           \* one record per addAudioTrack call
    result,             \* the returned StoryboardVideoResult
    loopIndex,          \* index of the sequential for loop
    promiseValue,       \* per scene: value its promise resolved with (parallel)
    utilInput,          \* arguments of a direct call of an ffmpeg utility
    utilOutput,         \* what that call did
    now,                \* Date.now() shared by two runs on one machine
    runNext,            \* per run: index of the next scene it writes
    runWritten,         \* per run: temporary clip paths it has written
    tmpOwner,           \* tmpdir: which run's clip each path holds
    genInput,           \* one scene: style, characterDescription, scene text
    genPc,              \* position of that scene's provider call
    prompt,             \* the prompt built for the scene
    jobDone,            \* the status the video service reports for the job
    createdStatus,      \* done flag of the operation as generateVideos returned it
    operationDone,      \* currentOperation.done
    statusChecks,       \* getVideosOperation calls made by pollOperation
    notDoneSeen,        \* times the while condition found the operation not done
    genError,           \* error the provider call rejected with
    callerPc            \* position of the scene loop around the provider call

mainVars == <<scenes, variant, referenceImages, backgroundMusic, musicVolume, transition,
          pc, error, thrown, ffmpegChecks, ffmpegAvailable, refReads, loadedReferences,
          sceneState, genCalls, genKind, completionOrder, sceneResults, videoPaths,
          stitchedVideoPath, files, written, unlinked, concatLog, audioLog, result,
          loopIndex, promiseValue>>
utility == <<utilInput, utilOutput>>
tmpRuns == <<now, runNext, runWritten, tmpOwner>>
provider == <<genInput, genPc, prompt, jobDone, createdStatus, operationDone, statusChecks,
              notDoneSeen, genError, callerPc>>
harness == <<utility, tmpRuns, provider>>
vars == <<mainVars, utility, tmpRuns, provider>>

config == <<scenes, variant, referenceImages, backgroundMusic, musicVolume, transition>>
prelude == <<ffmpegChecks, ffmpegAvailable, refReads, loadedReferences>>
generation == <<sceneState, genCalls, genKind, completionOrder, sceneResults, loopIndex, promiseValue>>
assembly == <<videoPaths, stitchedVideoPath, concatLog, audioLog>>
disk == <<files, written, unlinked>>

\* ------------------------------------------------------- pure helpers
Range(s) == {s[i] : i \in 1 .. Len(s)}

\* insertion into a list sorted by ascending index, after equal keys (stable)
RECURSIVE InsertByIndex(_, _)
InsertByIndex(r, s) ==
    IF s = <<>> THEN <<r>>
    ELSE IF r.index - Head(s).index < 0 THEN <<r>> \o s
         ELSE <<Head(s)>> \o InsertByIndex(r, Tail(s))

RECURSIVE InsertByIndexDescending(_, _)
InsertByIndexDescending(r, s) ==
    IF s = <<>> THEN <<r>>
    ELSE IF Head(s).index - r.index < 0 THEN <<r>> \o s
         ELSE <<Head(s)>> \o InsertByIndexDescending(r, Tail(s))

RECURSIVE SortDescending(_)
SortDescending(s) ==
    IF s = <<>> THEN <<>>
    ELSE InsertByIndexDescending(s[Len(s)], SortDescending(SubSeq(s, 1, Len(s) - 1)))

\* successfulScenes.sort((a, b) => a.index - b.index)
RECURSIVE SortByIndex(_)
SortByIndex(s) ==
    IF s = <<>> THEN <<>>
    ELSE InsertByIndex(s[Len(s)], SortByIndex(SubSeq(s, 1, Len(s) - 1)))

\* ------------------------------------------- generateStoryboardVideo helpers
\* if (!options.scenes || options.scenes.length === 0) throw
AlwaysHasScenes(n) == TRUE
HasScenes(n) == ~(n = 0)

\* if (!ffmpegAvailable) throw
NeverMissing(available) == FALSE
FfmpegMissing(available) == ~available

\* if (referenceImages && referenceImages.length > 0)
ReferencesProvided(refs) == refs # NoRefs /\ refs > 0

\* if (referenceImages.length > 3) throw
TooManyAboveFour(refs) == refs > MaxReferenceImages + 1
TooManyReferences(refs) == refs > MaxReferenceImages

\* if (loadedReferences && loadedReferences.length > 0)
UseReferencesWhenSeveral(loaded) == loaded > 1
UseReferences(loaded) == loaded > 0

\* for (let index = 0; index < scenes.length; index++) / scenes.map((_, index) => ...)
SceneIndicesFromOne(n) == 1 .. n - 1
SceneIndices(n) == 0 .. n - 1

NoValue == [index |-> -1, path |-> NullPath, success |-> FALSE]
SuccessResult(index) == [index |-> index, path |-> TempPath(index, Epoch), success |-> TRUE]
FailedResult(index) == [index |-> index, path |-> NullPath, success |-> FALSE]

\* await Promise.all(scenePromises): the values in the order of the promises
PromiseAll(values, n) == [i \in 1 .. n |-> values[i - 1]]

\* sceneResults.filter(result => result.success && result.path !== null)
KeepAllScenes(results) == results
RECURSIVE SuccessfulScenes(_)
SuccessfulScenes(results) ==
    IF results = <<>> THEN <<>>
    ELSE IF Head(results).success /\ Head(results).path # NullPath
         THEN <<Head(results)>> \o SuccessfulScenes(Tail(results))
         ELSE SuccessfulScenes(Tail(results))

\* if (successfulScenes.length === 0) throw
NeverAllFailed(successful) == FALSE
AllScenesFailed(successful) == Len(successful) = 0

\* successfulScenes.sort(...); videoPaths = successfulScenes.map(s => s.path)
VideoPaths(successful) ==
    LET sorted == SortByIndex(successful)
    IN  [i \in 1 .. Len(sorted) |-> sorted[i].path]

\* stitchedVideoPath = backgroundMusic ? join(tmpdir(), 'stitched-...') : outputPath
AlwaysOutputPath(music) == OutputPath
StitchedVideoPath(music) == IF music THEN StitchedTempPath ELSE OutputPath

\* the finally block around concatenateVideos / addAudioTrack
CleanupOnSuccessOnly(threw) == ~threw
RunsCleanup(threw) == TRUE

\* sceneResults.map(r => ({ scene: r.index + 1, ... }))
SceneTimesOfSuccessful(results) ==
    LET successful == SuccessfulScenes(results)
    IN  [i \in 1 .. Len(successful) |-> successful[i].index + 1]
SceneTimes(results) == [i \in 1 .. Len(results) |-> results[i].index + 1]

NoResult == [videoPath |-> NullPath, sceneTimes |-> <<>>, successCount |-> -1, failureCount |-> -1]
CountsAllAsSuccess(results) ==
    [videoPath |-> OutputPath, sceneTimes |-> SceneTimes(results),
     successCount |-> Len(results), failureCount |-> 0]
StoryboardResult(results) ==
    LET successful == SuccessfulScenes(results)
    IN  [videoPath |-> OutputPath, sceneTimes |-> SceneTimes(results),
         successCount |-> Len(successful),
         failureCount |-> Len(results) - Len(successful)]

\* ------------------------------------------------------- ffmpeg utilities
\* what one call did: the message of the Error it threw, files copied, manifests written, ffmpeg processes
\* started, ffprobe calls made, and the disk afterwards
Effects(thrown_, copies, manifests, runs, probes, fs) ==
    [ok |-> thrown_ = "none", error |-> thrown_, copies |-> copies, manifests |-> manifests, ffmpegRuns |-> runs,
     probes |-> probes, files |-> fs]

\* outcomes of the external collaborators during one call: file operations,
\* the ffmpeg process, how many ffprobe calls succeed, and the durations
\* ffprobe reports (tenths of a second)
ToolOutcomes(n, durationSet) ==
    [fsOk : BOOLEAN, execOk : BOOLEAN, probesOk : 0 .. n, durations : [1 .. n -> durationSet]]

\* labels of a filter graph: [i:v] [i:a] [v<i>] [a<i>] [outv] [outa] [v<i>out] [v<i>in]
InputVideo(i) == [name |-> "in:v", n |-> i]
InputAudio(i) == [name |-> "in:a", n |-> i]
VideoLabel(i) == [name |-> "v", n |-> i]
AudioLabel(i) == [name |-> "a", n |-> i]
OutV == [name |-> "outv", n |-> 0]
OutA == [name |-> "outa", n |-> 0]
FadeOutLabel(i) == [name |-> "vout", n |-> i]
FadeInLabel(i) == [name |-> "vin", n |-> i]

\* the -filter_complex program and the -map options of one ffmpeg command
Filter(video, audio, fades, concatInputs, concatN, maps) ==
    [video |-> video, audio |-> audio, fades |-> fades, concatInputs |-> concatInputs,
     concatN |-> concatN, maps |-> maps]
NoFilter == Filter(<<>>, <<>>, <<>>, <<>>, 0, <<>>)

\* if (videoPaths.length === 1) { copyFile(...); return; }
NeverSingleClip(paths) == FALSE
IsSingleClip(paths) == Len(paths) = 1

\* fs.copyFile(firstVideo, outputPath)
CopySingleClip(paths, outputPath, fs, env) ==
    Effects(IF env.fsOk THEN "none" ELSE "copyFile failed",
            <<[src |-> paths[1], dst |-> outputPath]>>, <<>>, <<>>, 0,
            IF env.fsOk THEN fs \cup {outputPath} ELSE fs)

\* execAsync(`ffmpeg ...`): one process, started after `probes` ffprobe calls;
\* its failure is thrown to the caller
RunFfmpegRetrying(mode, paths, outputPath, filter, manifests, probes, fs, env) ==
    Effects(IF env.execOk THEN "none" ELSE "Command failed", <<>>, manifests,
            IF env.execOk
            THEN <<[mode |-> mode, inputs |-> paths, filter |-> filter, probed |-> probes]>>
            ELSE <<[mode |-> mode, inputs |-> paths, filter |-> filter, probed |-> probes],
                   [mode |-> mode, inputs |-> paths, filter |-> filter, probed |-> probes]>>,
            probes, IF env.execOk THEN fs \cup {outputPath} ELSE fs)
RunFfmpeg(mode, paths, outputPath, filter, manifests, probes, fs, env) ==
    Effects(IF env.execOk THEN "none" ELSE "Command failed", <<>>, manifests,
            <<[mode |-> mode, inputs |-> paths, filter |-> filter, probed |-> probes]>>, probes,
            IF env.execOk THEN fs \cup {outputPath} ELSE fs)

\* videoPaths.map(path => `file '${path}'`).join('\n')
ManifestWithoutLast(paths) == [i \in 1 .. Len(paths) - 1 |-> [file |-> paths[i]]]
ManifestContent(paths) == [i \in 1 .. Len(paths) |-> [file |-> paths[i]]]

ConcatenateWithCut(paths, outputPath, fs, env) ==
    IF ~env.fsOk
    THEN Effects("writeFile failed", <<>>, <<>>, <<>>, 0, fs)
    ELSE RunFfmpeg("concat", paths, outputPath, NoFilter, <<ManifestContent(paths)>>, 0, fs, env)

\* let cumulativeOffset = durations[0]! - transitionDuration
InitialOffsetZero(first, transitionDuration) == 0
InitialOffset(first, transitionDuration) == first - transitionDuration

\* cumulativeOffset += durations[i]! - transitionDuration
NextOffsetKeepsOverlap(offset, duration, transitionDuration) == offset + duration
NextOffset(offset, duration, transitionDuration) == offset + duration - transitionDuration

\* nextVideoLabel = isLast ? '[outv]' : `[v${i}]`
NextVideoLabelNeverOut(i, isLast) == VideoLabel(i)
NextVideoLabel(i, isLast) == IF isLast THEN OutV ELSE VideoLabel(i)

\* nextAudioLabel = isLast ? '[outa]' : `[a${i}]`
NextAudioLabel(i, isLast) == IF isLast THEN OutA ELSE AudioLabel(i)

\* the for loop of concatenateWithCrossfade from iteration i on; st holds
\* currentVideoLabel, currentAudioLabel, cumulativeOffset and both filter lists
RECURSIVE CrossfadeLoop(_, _, _, _)
CrossfadeLoop(i, durations, transitionDuration, st) ==
    IF ~(i < Len(durations)) THEN st
    ELSE LET isLast == i = Len(durations) - 1
             nextV == NextVideoLabel(i, isLast)
             nextA == NextAudioLabel(i, isLast)
         IN  CrossfadeLoop(i + 1, durations, transitionDuration,
                [currentVideoLabel |-> nextV,
                 currentAudioLabel |-> nextA,
                 cumulativeOffset |->
                    IF ~isLast
                    THEN NextOffset(st.cumulativeOffset, durations[i + 1], transitionDuration)
                    ELSE st.cumulativeOffset,
                 video |-> Append(st.video,
                    [in1 |-> st.currentVideoLabel, in2 |-> InputVideo(i),
                     duration |-> transitionDuration, offset |-> st.cumulativeOffset,
                     out |-> nextV]),
                 audio |-> Append(st.audio,
                    [in1 |-> st.currentAudioLabel, in2 |-> InputAudio(i),
                     duration |-> transitionDuration, out |-> nextA])])

\* the filter graph concatenateWithCrossfade hands to ffmpeg
CrossfadeFilter(durations, transitionDuration) ==
    LET st == CrossfadeLoop(1, durations, transitionDuration,
                [currentVideoLabel |-> InputVideo(0),
                 currentAudioLabel |-> InputAudio(0),
                 cumulativeOffset |-> InitialOffset(durations[1], transitionDuration),
                 video |-> <<>>, audio |-> <<>>])
    IN  Filter(st.video, st.audio, <<>>, <<>>, 0, <<OutV, OutA>>)

\* for (const videoPath of videoPaths) durations.push(await getVideoDuration(videoPath))
ProbesAllButLast(paths) == Len(paths) - 1
ProbesNeeded(paths) == Len(paths)

ConcatenateWithCrossfade(paths, outputPath, transitionDuration, fs, env) ==
    IF IsSingleClip(paths)
    THEN CopySingleClip(paths, outputPath, fs, env)
    ELSE IF env.probesOk < ProbesNeeded(paths)
         THEN Effects("Failed to get video duration", <<>>, <<>>, <<>>, env.probesOk + 1, fs)
         ELSE RunFfmpeg("xfade", paths, outputPath,
                        CrossfadeFilter(env.durations, transitionDuration),
                        <<>>, ProbesNeeded(paths), fs, env)

\* the for loop of concatenateWithFade from iteration i on (n clips)
RECURSIVE FadeStages(_, _, _)
FadeStages(i, n, duration) ==
    IF ~(i < n) THEN <<>>
    ELSE (IF i < n - 1
          THEN <<[type |-> "out", in |-> InputVideo(i), st |-> 0, d |-> duration,
                  out |-> FadeOutLabel(i)],
                 [type |-> "in", in |-> InputVideo(i + 1), st |-> 0, d |-> duration,
                  out |-> FadeInLabel(i + 1)]>>
          ELSE <<>>) \o FadeStages(i + 1, n, duration)

\* videoPaths.map((_, i) => ...).join('') from index i on
RECURSIVE FadeConcatInputs(_, _)
FadeConcatInputs(i, n) ==
    IF ~(i < n) THEN <<>>
    ELSE (IF i = 0 THEN <<FadeOutLabel(0)>>
          ELSE IF i = n - 1 THEN <<FadeInLabel(i)>>
          ELSE <<FadeOutLabel(i), FadeInLabel(i)>>) \o FadeConcatInputs(i + 1, n)

\* the filter graph concatenateWithFade hands to ffmpeg
FadeFilter(n, duration) ==
    Filter(<<>>, <<>>, FadeStages(0, n, duration), FadeConcatInputs(0, n), n, <<OutV>>)

ConcatenateWithFade(paths, outputPath, duration, fs, env) ==
    IF IsSingleClip(paths)
    THEN CopySingleClip(paths, outputPath, fs, env)
    ELSE RunFfmpeg("fade", paths, outputPath, FadeFilter(Len(paths), duration),
                   <<>>, 0, fs, env)

\* catch (error) { throw new Error(`<message>: ${error.message}`) }
Rethrow(done, message) ==
    IF done.ok THEN done ELSE [done EXCEPT !.error = message]

ConcatenateVideos(paths, outputPath, options, fs, env) ==
    IF Len(paths) = 0
    THEN Effects("No videos provided for concatenation", <<>>, <<>>, <<>>, 0, fs)
    ELSE IF \E i \in 1 .. Len(paths) : paths[i] \notin fs
         THEN Effects("Video file not found", <<>>, <<>>, <<>>, 0, fs)
    ELSE Rethrow(
            IF options.transition = "cut"
            THEN ConcatenateWithCut(paths, outputPath, fs, env)
            ELSE IF options.transition = "crossfade"
            THEN ConcatenateWithCrossfade(paths, outputPath, options.transitionDuration,
                                          fs, env)
            ELSE IF options.transition = "fade"
            THEN ConcatenateWithFade(paths, outputPath, options.transitionDuration, fs, env)
            ELSE Effects("Unknown transition type", <<>>, <<>>, <<>>, 0, fs),
            "Failed to concatenate videos")

\* if (volume < 0 || volume > 1) throw
VolumeOutOfRangeExclusive(volume) == volume <= VolumeMin \/ volume > VolumeMax
VolumeOutOfRange(volume) == volume < VolumeMin \/ volume > VolumeMax

AddAudioTrack(videoPath, audioPath, outputPath, volume, fs, env) ==
    IF videoPath \notin fs THEN Effects("Video file not found", <<>>, <<>>, <<>>, 0, fs)
    ELSE IF audioPath \notin fs THEN Effects("Audio file not found", <<>>, <<>>, <<>>, 0, fs)
    ELSE IF VolumeOutOfRange(volume)
         THEN Effects("Volume must be between 0 and 1", <<>>, <<>>, <<>>, 0, fs)
    ELSE Rethrow(RunFfmpeg("amix", <<videoPath, audioPath>>, outputPath, NoFilter, <<>>,
                           0, fs, env),
                 "Failed to add audio track")

\* ------------------------------------------------------------------ state
AllIndices == 0 .. MaxScenes - 1

\* the run has not started: nothing called, nothing written
RunStart ==
    /\ pc = "validate"
    /\ error = "none"
    /\ thrown = "none"
    /\ ffmpegChecks = 0
    /\ ffmpegAvailable = "unknown"
    /\ refReads = 0
    /\ loadedReferences = 0
    /\ sceneState = [i \in AllIndices |-> "idle"]
    /\ genCalls = [i \in AllIndices |-> 0]
    /\ genKind = [i \in AllIndices |-> [fn |-> "none", references |-> 0]]
    /\ completionOrder = <<>>
    /\ sceneResults = <<>>
    /\ videoPaths = <<>>
    /\ stitchedVideoPath = NullPath
    /\ written = {}
    /\ unlinked = {}
    /\ concatLog = <<>>
    /\ audioLog = <<>>
    /\ result = NoResult
    /\ loopIndex = 0
    /\ promiseValue = [i \in AllIndices |-> NoValue]

\* no run of generateStoryboardVideo is being followed
MainIdle ==
    /\ scenes = 0
    /\ variant = "sequential"
    /\ referenceImages = NoRefs
    /\ backgroundMusic = FALSE
    /\ musicVolume = DefaultMusicVolume
    /\ transition = "crossfade"
    /\ files = {}
    /\ RunStart

\* arguments of a direct call of concatenateVideos or addAudioTrack: the number
\* of clips, which clip (0: none) is missing from disk, the options, and for
\* addAudioTrack whether the video and the audio file exist and the volume
NoInput ==
    [fn |-> "none", clips |-> 0, missing |-> 0, transition |-> "cut",
     transitionDuration |-> DefaultTransitionDuration, videoExists |-> FALSE,
     audioExists |-> FALSE, volume |-> DefaultMusicVolume]
ConcatenateInputs ==
    UNION {{[fn |-> "concatenateVideos", clips |-> n, missing |-> m, transition |-> k,
             transitionDuration |-> t, videoExists |-> FALSE, audioExists |-> FALSE,
             volume |-> DefaultMusicVolume] :
                m \in 0 .. n, k \in Transitions, t \in TransitionDurationChoices} :
           n \in 0 .. MaxClips}
AddAudioInputs ==
    {[fn |-> "addAudioTrack", clips |-> 0, missing |-> 0, transition |-> "cut",
      transitionDuration |-> DefaultTransitionDuration, videoExists |-> v,
      audioExists |-> a, volume |-> vol] :
        v \in BOOLEAN, a \in BOOLEAN, vol \in VolumeChoices}

NoOutput ==
    [called |-> FALSE, ok |-> FALSE, error |-> "none", copies |-> <<>>, manifests |-> <<>>,
     ffmpegRuns |-> <<>>, probes |-> 0, files |-> {},
     env |-> [fsOk |-> TRUE, execOk |-> TRUE, probesOk |-> 0, durations |-> <<>>]]
Output(done, env) ==
    [called |-> TRUE, ok |-> done.ok, error |-> done.error, copies |-> done.copies, manifests |-> done.manifests,
     ffmpegRuns |-> done.ffmpegRuns, probes |-> done.probes, files |-> done.files,
     env |-> env]

\* the clips handed to a direct call, and the disk it runs on
ClipPaths(n) == [i \in 1 .. n |-> TempPath(i - 1, Epoch)]
InputFiles(input) ==
    {TempPath(i - 1, Epoch) : i \in (1 .. input.clips) \ {input.missing}}
        \cup (IF input.videoExists THEN {StitchedTempPath} ELSE {})
        \cup (IF input.audioExists THEN {MusicPath} ELSE {})

UtilityIdle == utilInput = NoInput /\ utilOutput = NoOutput

\* one scene of a storyboard: options.style and options.characterDescription
\* ("": not supplied) and the scene text
SceneInputs ==
    [style : {"", "noir"}, characterDescription : {"", "Detective in trench coat"},
     sceneDescription : {"Walking through city", "Finding a clue"}]
NoSceneInput == [style |-> "", characterDescription |-> "", sceneDescription |-> ""]

\* the provider call has not been started
CallNotStarted ==
    /\ genPc = "prompt"
    /\ prompt = <<>>
    /\ jobDone = FALSE
    /\ createdStatus = "none"
    /\ operationDone = FALSE
    /\ statusChecks = 0
    /\ notDoneSeen = 0
    /\ genError = "none"
    /\ callerPc = "try"
ProviderIdle == genInput = NoSceneInput /\ CallNotStarted
TmpRunsIdle ==
    /\ now = Epoch
    /\ runNext = [r \in Runs |-> 0]
    /\ runWritten = [r \in Runs |-> {}]
    /\ tmpOwner = {}

Init ==
    /\ scenes \in 0 .. MaxScenes
    /\ variant \in Variants
    /\ referenceImages \in ReferenceChoices
    /\ backgroundMusic \in BOOLEAN
    /\ musicVolume \in VolumeChoices
    /\ transition \in Transitions
    /\ files \in {{}, {MusicPath}}
    /\ RunStart
    /\ UtilityIdle
    /\ TmpRunsIdle
    /\ ProviderIdle

Reject(e) == pc' = "failed" /\ error' = e

\* lines 106-109: at least one scene is required
Validate ==
    /\ pc = "validate"
    /\ IF HasScenes(scenes) THEN pc' = "checkFfmpeg" /\ UNCHANGED error
       ELSE Reject("At least one scene is required")
    /\ UNCHANGED <<harness, config, thrown, prelude, generation, assembly, disk, result>>

\* lines 111-117: checkFfmpegInstalled
CheckFfmpeg ==
    /\ pc = "checkFfmpeg"
    /\ \E available \in BOOLEAN :
        /\ ffmpegChecks' = ffmpegChecks + 1
        /\ ffmpegAvailable' = IF available THEN "yes" ELSE "no"
        /\ IF FfmpegMissing(available) THEN Reject("FFmpeg is not installed")
           ELSE pc' = "loadRefs" /\ UNCHANGED error
    /\ UNCHANGED <<harness, config, thrown, refReads, loadedReferences, generation, assembly, disk, result>>

\* lines 135-152: load the reference images
LoadReferences ==
    /\ pc = "loadRefs"
    /\ IF ReferencesProvided(referenceImages)
       THEN IF TooManyReferences(referenceImages)
            THEN /\ Reject("Maximum of 3 reference images allowed")
                 /\ UNCHANGED <<refReads, loadedReferences>>
            ELSE \E readOk \in BOOLEAN :
                    /\ refReads' = refReads + referenceImages
                    /\ IF readOk
                       THEN /\ loadedReferences' = referenceImages
                            /\ pc' = "generate"
                            /\ UNCHANGED error
                       ELSE /\ Reject("readFile failed")
                            /\ UNCHANGED loadedReferences
       ELSE /\ pc' = "generate"
            /\ UNCHANGED <<error, refReads, loadedReferences>>
    /\ UNCHANGED <<harness, config, thrown, ffmpegChecks, ffmpegAvailable, generation, assembly, disk, result>>

\* lines 195-214: the provider call of one scene
ProviderCall(loaded) ==
    IF UseReferences(loaded)
    THEN [fn |-> "generateVideoWithReferences", references |-> loaded]
    ELSE [fn |-> "generateVideo", references |-> 0]

\* part_011 lines 185-227: scenes.map starts every callback, each runs to its
\* first await, the provider call
StartScenes ==
    /\ pc = "generate"
    /\ variant = "parallel"
    /\ pc' = "awaitAll"
    /\ sceneState' = [i \in AllIndices |->
                        IF i \in SceneIndices(scenes) THEN "generating" ELSE sceneState[i]]
    /\ genCalls' = [i \in AllIndices |->
                        IF i \in SceneIndices(scenes) THEN genCalls[i] + 1 ELSE genCalls[i]]
    /\ genKind' = [i \in AllIndices |->
                        IF i \in SceneIndices(scenes) THEN ProviderCall(loadedReferences)
                        ELSE genKind[i]]
    /\ UNCHANGED <<harness, config, error, thrown, prelude, completionOrder, sceneResults, loopIndex,
                   promiseValue, assembly, disk, result>>

\* part_010 lines 179-214: one iteration of the for loop issues its provider call
IssueSceneWithoutAwait ==
    /\ pc = "generate"
    /\ variant = "sequential"
    /\ \E i \in SceneIndices(scenes) :
        /\ sceneState[i] = "idle"
        /\ \A j \in SceneIndices(scenes) : j < i => sceneState[j] # "idle"
        /\ sceneState' = [sceneState EXCEPT ![i] = "generating"]
        /\ genCalls' = [genCalls EXCEPT ![i] = @ + 1]
        /\ genKind' = [genKind EXCEPT ![i] = ProviderCall(loadedReferences)]
    /\ UNCHANGED <<harness, config, pc, error, thrown, prelude, completionOrder, sceneResults, loopIndex,
                   promiseValue, assembly, disk, result>>
IssueScene ==
    /\ pc = "generate"
    /\ variant = "sequential"
    /\ loopIndex \in SceneIndices(scenes)
    /\ sceneState[loopIndex] = "idle"
    /\ sceneState' = [sceneState EXCEPT ![loopIndex] = "generating"]
    /\ genCalls' = [genCalls EXCEPT ![loopIndex] = @ + 1]
    /\ genKind' = [genKind EXCEPT ![loopIndex] = ProviderCall(loadedReferences)]
    /\ UNCHANGED <<harness, config, pc, error, thrown, prelude, completionOrder, sceneResults, loopIndex,
                   promiseValue, assembly, disk, result>>

\* the scene's callback returns (or the loop body pushes) its SceneResult
Settle(i, value, state) ==
    /\ sceneState' = [sceneState EXCEPT ![i] = state]
    /\ completionOrder' = Append(completionOrder, i)
    /\ IF variant = "sequential"
       THEN /\ sceneResults' = Append(sceneResults, value)
            /\ loopIndex' = loopIndex + 1
            /\ UNCHANGED promiseValue
       ELSE /\ promiseValue' = [promiseValue EXCEPT ![i] = value]
            /\ UNCHANGED <<sceneResults, loopIndex>>

\* the provider call of scene i resolves with a buffer, or rejects (catch block)
GenerationSettles(i) ==
    /\ pc \in {"generate", "awaitAll"}
    /\ sceneState[i] = "generating"
    /\ \E ok \in BOOLEAN :
        IF ok
        THEN /\ sceneState' = [sceneState EXCEPT ![i] = "writing"]
             /\ UNCHANGED <<completionOrder, sceneResults, loopIndex, promiseValue>>
        ELSE Settle(i, FailedResult(i), "failed")
    /\ UNCHANGED <<harness, config, pc, error, thrown, prelude, genCalls, genKind, assembly, disk, result>>

\* lines 216-239: writeFile(tempPath, result.buffer) succeeds, or throws (catch block)
WriteTempFile(i) ==
    /\ pc \in {"generate", "awaitAll"}
    /\ sceneState[i] = "writing"
    /\ \E ok \in BOOLEAN :
        IF ok
        THEN /\ files' = files \cup {TempPath(i, Epoch)}
             /\ written' = written \cup {TempPath(i, Epoch)}
             /\ Settle(i, SuccessResult(i), "ok")
        ELSE /\ UNCHANGED <<files, written>>
             /\ Settle(i, FailedResult(i), "failed")
    /\ UNCHANGED <<harness, config, pc, error, thrown, prelude, genCalls, genKind, assembly, unlinked, result>>

\* part_010 line 179: the for loop ends
LoopExitAfterFirst ==
    /\ pc = "generate"
    /\ variant = "sequential"
    /\ loopIndex >= 1
    /\ \A i \in AllIndices : sceneState[i] \notin {"generating", "writing"}
    /\ pc' = "filter"
    /\ UNCHANGED <<harness, config, error, thrown, prelude, generation, assembly, disk, result>>
LoopExit ==
    /\ pc = "generate"
    /\ variant = "sequential"
    /\ loopIndex \notin SceneIndices(scenes)
    /\ pc' = "filter"
    /\ UNCHANGED <<harness, config, error, thrown, prelude, generation, assembly, disk, result>>

\* part_011 line 257: await Promise.all(scenePromises)
AwaitAll ==
    /\ pc = "awaitAll"
    /\ \A i \in SceneIndices(scenes) : sceneState[i] \in {"ok", "failed"}
    /\ sceneResults' = PromiseAll(promiseValue, scenes)
    /\ pc' = "filter"
    /\ UNCHANGED <<harness, config, error, thrown, prelude, sceneState, genCalls, genKind, completionOrder,
                   loopIndex, promiseValue, assembly, disk, result>>

\* lines 242-275: partition the results, order the clips, choose the destination
Partition ==
    /\ pc = "filter"
    /\ LET successful == SuccessfulScenes(sceneResults)
       IN  IF AllScenesFailed(successful)
           THEN /\ Reject("All scenes failed to generate")
                /\ UNCHANGED <<videoPaths, stitchedVideoPath>>
           ELSE /\ videoPaths' = VideoPaths(successful)
                /\ stitchedVideoPath' = StitchedVideoPath(backgroundMusic)
                /\ pc' = "concat"
                /\ UNCHANGED error
    /\ UNCHANGED <<harness, config, thrown, prelude, generation, concatLog, audioLog, disk, result>>

\* line 278: await concatenateVideos(videoPaths, stitchedVideoPath, concatenateOptions)
Concatenate ==
    /\ pc = "concat"
    /\ \E env \in ToolOutcomes(Len(videoPaths), {SceneDuration}) :
        LET done == ConcatenateVideos(videoPaths, stitchedVideoPath,
                        [transition |-> transition,
                         transitionDuration |-> DefaultTransitionDuration], files, env)
        IN  /\ concatLog' = Append(concatLog,
                    [paths |-> videoPaths, out |-> stitchedVideoPath, transition |-> transition,
                     ok |-> done.ok, copies |-> done.copies, manifests |-> done.manifests,
                     ffmpegRuns |-> done.ffmpegRuns, probes |-> done.probes])
            /\ files' = done.files
            /\ IF done.ok
               THEN /\ pc' = IF backgroundMusic THEN "audio" ELSE "cleanup"
                    /\ UNCHANGED thrown
               ELSE /\ pc' = "cleanup"
                    /\ thrown' = done.error
    /\ UNCHANGED <<harness, config, error, prelude, generation, videoPaths, stitchedVideoPath, audioLog,
                   written, unlinked, result>>

\* lines 281-288: addAudioTrack, then unlink the stitched intermediate
AddAudio ==
    /\ pc = "audio"
    /\ \E env \in ToolOutcomes(0, {SceneDuration}) :
        LET done == AddAudioTrack(stitchedVideoPath, MusicPath, OutputPath, musicVolume, files, env)
        IN  /\ audioLog' = Append(audioLog,
                    [video |-> stitchedVideoPath, audio |-> MusicPath, out |-> OutputPath,
                     volume |-> musicVolume, ok |-> done.ok, ffmpegRuns |-> done.ffmpegRuns])
            /\ IF done.ok
               THEN /\ files' = done.files \ {stitchedVideoPath}
                    /\ unlinked' = unlinked \cup {stitchedVideoPath}
                    /\ UNCHANGED thrown
               ELSE /\ files' = done.files
                    /\ thrown' = done.error
                    /\ UNCHANGED unlinked
    /\ pc' = "cleanup"
    /\ UNCHANGED <<harness, config, error, prelude, generation, videoPaths, stitchedVideoPath, concatLog,
                   written, result>>

\* lines 289-325: the finally block, then the return value or the pending error
Cleanup ==
    /\ pc = "cleanup"
    /\ IF RunsCleanup(thrown # "none")
       THEN /\ files' = files \ Range(videoPaths)
            /\ unlinked' = unlinked \cup Range(videoPaths)
       ELSE UNCHANGED <<files, unlinked>>
    /\ IF thrown # "none"
       THEN /\ Reject(thrown)
            /\ UNCHANGED result
       ELSE /\ pc' = "done"
            /\ result' = StoryboardResult(sceneResults)
            /\ UNCHANGED error
    /\ UNCHANGED <<harness, config, thrown, prelude, generation, assembly, written>>

Next ==
    \/ Validate
    \/ CheckFfmpeg
    \/ LoadReferences
    \/ StartScenes
    \/ IssueScene
    \/ \E i \in AllIndices : GenerationSettles(i)
    \/ \E i \in AllIndices : WriteTempFile(i)
    \/ LoopExit
    \/ AwaitAll
    \/ Partition
    \/ Concatenate
    \/ AddAudio
    \/ Cleanup

Spec == Init /\ [][Next]_vars

\* --------------------------------- direct calls of the ffmpeg utilities
InitFfmpeg ==
    /\ MainIdle
    /\ TmpRunsIdle
    /\ ProviderIdle
    /\ utilInput \in ConcatenateInputs \cup AddAudioInputs
    /\ utilOutput = NoOutput

\* concatenateVideos(videoPaths, outputPath, { transition, transitionDuration })
CallConcatenateVideos ==
    /\ utilInput.fn = "concatenateVideos"
    /\ ~utilOutput.called
    /\ \E env \in ToolOutcomes(utilInput.clips, DurationChoices) :
        utilOutput' = Output(ConcatenateVideos(ClipPaths(utilInput.clips), OutputPath,
                                [transition |-> utilInput.transition,
                                 transitionDuration |-> utilInput.transitionDuration],
                                InputFiles(utilInput), env), env)
    /\ UNCHANGED <<mainVars, utilInput, tmpRuns, provider>>

\* addAudioTrack(videoPath, audioPath, outputPath, volume)
CallAddAudioTrack ==
    /\ utilInput.fn = "addAudioTrack"
    /\ ~utilOutput.called
    /\ \E env \in ToolOutcomes(0, DurationChoices) :
        utilOutput' = Output(AddAudioTrack(StitchedTempPath, MusicPath, OutputPath,
                                utilInput.volume, InputFiles(utilInput), env), env)
    /\ UNCHANGED <<mainVars, utilInput, tmpRuns, provider>>

NextFfmpeg ==
    \/ CallConcatenateVideos
    \/ CallAddAudioTrack

SpecFfmpeg == InitFfmpeg /\ [][NextFfmpeg]_vars

\* ------------------------ two runs of generateStoryboardVideo on one machine
InitRuns ==
    /\ MainIdle
    /\ UtilityIdle
    /\ TmpRunsIdle
    /\ ProviderIdle

\* the clock advances between two reads of Date.now()
Tick ==
    /\ now < MaxClock
    /\ now' = now + 1
    /\ UNCHANGED <<mainVars, utility, provider, runNext, runWritten, tmpOwner>>

\* lines 216-217 in run r: writeFile(join(tmpdir(), `scene-${index}-${Date.now()}.mp4`))
RunWritesClip(r) ==
    /\ runNext[r] < RunScenes
    /\ LET tempPath == TempPath(runNext[r], now)
       IN  /\ tmpOwner' = {e \in tmpOwner : e.path # tempPath}
                            \cup {[path |-> tempPath, owner |-> r]}
           /\ runWritten' = [runWritten EXCEPT ![r] = @ \cup {tempPath}]
    /\ runNext' = [runNext EXCEPT ![r] = @ + 1]
    /\ UNCHANGED <<mainVars, utility, provider, now>>

\* lines 289-297 in run r: the finally block unlinks every clip path of the run
RunCleansUp(r) ==
    /\ runNext[r] = RunScenes
    /\ runNext' = [runNext EXCEPT ![r] = RunScenes + 1]
    /\ tmpOwner' = {e \in tmpOwner : e.path \notin runWritten[r]}
    /\ UNCHANGED <<mainVars, utility, provider, now, runWritten>>

NextRuns ==
    \/ Tick
    \/ \E r \in Runs : RunWritesClip(r)
    \/ \E r \in Runs : RunCleansUp(r)

SpecRuns == InitRuns /\ [][NextRuns]_vars

\* ------------------- one scene: its prompt, its provider call, pollOperation
\* prompt = `${characterDescription}. ${prompt}`
WithCharacter(characterDescription, text) ==
    IF characterDescription # "" THEN <<characterDescription, ". ">> \o text ELSE text

\* prompt = `${style} style: ${prompt}`
WithStyle(style, text) ==
    IF style # "" THEN <<style, " style: ">> \o text ELSE text

\* part_010 lines 185-193: the prompt of one scene, as the pieces of the string
BuildPromptStyleInnermost(input) ==
    WithCharacter(input.characterDescription,
                  WithStyle(input.style, <<input.sceneDescription>>))
BuildPrompt(input) ==
    WithStyle(input.style,
              WithCharacter(input.characterDescription, <<input.sceneDescription>>))

\* while (!currentOperation.done), after `checks` status checks
KeepsPollingUpToLimit(done, checks) == ~done /\ checks < 1
KeepsPolling(done, checks) == ~done

\* currentOperation = await this.ai.operations.getVideosOperation(...)
PolledStatusDiscarded(current, reported) == current
PolledStatus(current, reported) == reported

InitGenerate ==
    /\ MainIdle
    /\ UtilityIdle
    /\ TmpRunsIdle
    /\ genInput \in SceneInputs
    /\ CallNotStarted

RejectCall(e) == genPc' = "rejected" /\ genError' = e

\* part_010 lines 185-214: build the prompt and call the provider
BuildPromptAndCall ==
    /\ callerPc = "try"
    /\ genPc = "prompt"
    /\ prompt' = BuildPrompt(genInput)
    /\ genPc' = "create"
    /\ callerPc' = "await"
    /\ UNCHANGED <<mainVars, utility, tmpRuns, genInput, jobDone, createdStatus, operationDone,
                   statusChecks, notDoneSeen, genError>>

\* the video service finishes the job
JobCompletes ==
    /\ genPc # "prompt"
    /\ ~jobDone
    /\ jobDone' = TRUE
    /\ UNCHANGED <<mainVars, utility, tmpRuns, genInput, genPc, prompt, createdStatus,
                   operationDone, statusChecks, notDoneSeen, genError, callerPc>>

\* gemini.ts lines 276-286, 437-447: await this.ai.models.generateVideos(...)
CreateOperation ==
    /\ genPc = "create"
    /\ \E ok \in BOOLEAN :
        IF ok
        THEN /\ createdStatus' = IF jobDone THEN "done" ELSE "pending"
             /\ operationDone' = jobDone
             /\ genPc' = "loop"
             /\ UNCHANGED genError
        ELSE /\ RejectCall("generateVideos failed")
             /\ UNCHANGED <<createdStatus, operationDone>>
    /\ UNCHANGED <<mainVars, utility, tmpRuns, genInput, prompt, jobDone, statusChecks,
                   notDoneSeen, callerPc>>

\* gemini.ts line 464: the while condition of pollOperation
LoopTest ==
    /\ genPc = "loop"
    /\ IF KeepsPolling(operationDone, statusChecks)
       THEN genPc' = "sleep"
       ELSE genPc' = "response"
    /\ notDoneSeen' = IF operationDone THEN notDoneSeen ELSE notDoneSeen + 1
    /\ UNCHANGED <<mainVars, utility, tmpRuns, genInput, prompt, jobDone, createdStatus,
                   operationDone, statusChecks, genError, callerPc>>

\* gemini.ts line 465: the POLL_INTERVAL_MS timer fires
Sleep ==
    /\ genPc = "sleep"
    /\ genPc' = "check"
    /\ UNCHANGED <<mainVars, utility, tmpRuns, genInput, prompt, jobDone, createdStatus,
                   operationDone, statusChecks, notDoneSeen, genError, callerPc>>

\* gemini.ts lines 466-468: one status check; it answers with the job's status
\* or throws. The job is followed for at most MaxPolls checks: the last of
\* them is only made once the job is done.
CheckStatus ==
    /\ genPc = "check"
    /\ statusChecks < MaxPolls
    /\ statusChecks = MaxPolls - 1 => jobDone
    /\ statusChecks' = statusChecks + 1
    /\ \E ok \in BOOLEAN :
        IF ok
        THEN /\ operationDone' = PolledStatus(operationDone, jobDone)
             /\ genPc' = "loop"
             /\ UNCHANGED genError
        ELSE /\ RejectCall("getVideosOperation failed")
             /\ UNCHANGED operationDone
    /\ UNCHANGED <<mainVars, utility, tmpRuns, genInput, prompt, jobDone, createdStatus,
                   notDoneSeen, callerPc>>

\* gemini.ts lines 290-299: the operation must carry a video with a uri
CheckResponse ==
    /\ genPc = "response"
    /\ \E response \in {"video", "no video", "no uri"} :
        IF ~operationDone \/ response = "no video" THEN RejectCall("No video was generated")
        ELSE IF response = "no uri" THEN RejectCall("Video URL not available")
        ELSE genPc' = "download" /\ UNCHANGED genError
    /\ UNCHANGED <<mainVars, utility, tmpRuns, genInput, prompt, jobDone, createdStatus,
                   operationDone, statusChecks, notDoneSeen, callerPc>>

\* gemini.ts lines 301, 474-488: downloadVideo
Download ==
    /\ genPc = "download"
    /\ \E ok \in BOOLEAN :
        IF ok THEN genPc' = "resolved" /\ UNCHANGED genError
        ELSE RejectCall("Failed to download video")
    /\ UNCHANGED <<mainVars, utility, tmpRuns, genInput, prompt, jobDone, createdStatus,
                   operationDone, statusChecks, notDoneSeen, callerPc>>

\* part_010 lines 216-239: the awaited call settles; the loop body goes on to
\* writeFile or to its catch block
AwaitReturns ==
    /\ callerPc = "await"
    /\ genPc \in {"resolved", "rejected"}
    /\ callerPc' = IF genPc = "resolved" THEN "writeFile" ELSE "catch"
    /\ UNCHANGED <<mainVars, utility, tmpRuns, genInput, genPc, prompt, jobDone, createdStatus,
                   operationDone, statusChecks, notDoneSeen, genError>>

\* part_010 lines 219-242: the SceneResult is pushed and the run goes on to
\* partition the results, assemble and clean up
LeaveSceneLoop ==
    /\ callerPc \in {"writeFile", "catch"}
    /\ callerPc' = "afterLoop"
    /\ UNCHANGED <<mainVars, utility, tmpRuns, genInput, genPc, prompt, jobDone, createdStatus,
                   operationDone, statusChecks, notDoneSeen, genError>>

CallSteps ==
    \/ CreateOperation
    \/ LoopTest
    \/ Sleep
    \/ CheckStatus
    \/ CheckResponse
    \/ Download

NextGenerate ==
    \/ BuildPromptAndCall
    \/ JobCompletes
    \/ CallSteps
    \/ AwaitReturns
    \/ LeaveSceneLoop

SpecGenerate == InitGenerate /\ [][NextGenerate]_vars

\* the event loop runs every continuation and timer that is ready, and the
\* service answers every request
SpecGenerateFair == SpecGenerate /\ WF_vars(CallSteps)

\* ----------------------------------------------------------------- claims
ValidationErrors ==
    {"At least one scene is required", "FFmpeg is not installed",
     "Maximum of 3 reference images allowed"}
AssemblyErrors == {"Failed to concatenate videos", "Failed to add audio track"}
UtilityRejections ==
    {"No videos provided for concatenation", "Video file not found", "Audio file not found",
     "Volume must be between 0 and 1"}
Finished == pc \in {"done", "failed"}
Succeeded == {i \in 0 .. scenes - 1 : sceneState[i] = "ok"}
NoGenerationCalls == \A i \in AllIndices : genCalls[i] = 0
PastGeneration ==
    \/ pc \in {"filter", "concat", "audio", "cleanup", "done"}
    \/ pc = "failed" /\ error \in AssemblyErrors \cup UtilityRejections
                                    \cup {"All scenes failed to generate"}

\* C1: every clip list handed to concatenateVideos holds scene clips in strictly
\* ascending scene index, whatever the order in which the scenes completed.
C1_AssemblyOrderIsIndexOrder ==
    \A k \in 1 .. Len(concatLog) :
        LET paths == concatLog[k].paths
        IN  /\ \A a \in 1 .. Len(paths) : paths[a].kind = "scene"
            /\ \A a, b \in 1 .. Len(paths) : a < b => paths[a].n < paths[b].n

\* C1 witness: two scenes succeeded, the later one completed first, and
\* concatenateVideos has been called with both clips.
C1_Witness ==
    /\ Len(concatLog) = 1
    /\ Len(concatLog[1].paths) >= 2
    /\ \E a, b \in 1 .. Len(completionOrder) :
        /\ a < b
        /\ completionOrder[a] > completionOrder[b]
        /\ sceneState[completionOrder[a]] = "ok"
        /\ sceneState[completionOrder[b]] = "ok"

\* C2: a returned result reports successCount = S and failureCount = K - S,
\* where S >= 1 is the number of scenes whose generation and write succeeded.
C2_CountsMatchOutcomes ==
    pc = "done" =>
        /\ result.successCount = Cardinality(Succeeded)
        /\ result.failureCount = scenes - Cardinality(Succeeded)
        /\ result.successCount + result.failureCount = scenes
        /\ result.successCount >= 1

\* C2 witness: a run of three scenes returned with two successes and one failure.
C2_Witness ==
    /\ pc = "done"
    /\ scenes = 3
    /\ Cardinality(Succeeded) = 2
    /\ result.failureCount = 1

\* C3: a scene failure is stored as a failed SceneResult and does not abort the
\* run: once generation is over every one of the K scenes has had exactly one
\* generation call and has exactly one result carrying its outcome, and the run
\* never rejects during generation because a scene failed.
C3_FailureIsolated ==
    /\ \A i \in AllIndices : genCalls[i] <= 1
    /\ (pc = "failed" /\ \E i \in 0 .. scenes - 1 : sceneState[i] = "failed") => PastGeneration
    /\ PastGeneration =>
        /\ Len(sceneResults) = scenes
        /\ \A i \in 0 .. scenes - 1 :
            /\ genCalls[i] = 1
            /\ \E k \in 1 .. Len(sceneResults) :
                /\ sceneResults[k].index = i
                /\ sceneResults[k].success = (sceneState[i] = "ok")
                /\ sceneState[i] = "failed" => sceneResults[k].path = NullPath

\* C3 witness: the first of several scenes failed and the run still returned.
C3_Witness ==
    /\ pc = "done"
    /\ scenes >= 2
    /\ sceneState[0] = "failed"
    /\ \A i \in 0 .. scenes - 1 : genCalls[i] = 1

C5_AllFailedRejects ==
    (scenes >= 1 /\ \A i \in 0 .. scenes - 1 : sceneState[i] = "failed") =>
        /\ concatLog = <<>>
        /\ audioLog = <<>>
        /\ pc \in {"generate", "awaitAll", "filter", "failed"}
        /\ pc = "failed" => error = "All scenes failed to generate"

\* C5 witness: a run of two or more scenes, all failed, has rejected.
C5_Witness ==
    /\ pc = "failed"
    /\ scenes >= 2
    /\ \A i \in 0 .. scenes - 1 : sceneState[i] = "failed"

\* C6: a musicVolume outside [0,1] makes the run fail before any generation
\* call is issued.
C6_VolumeValidatedFirst ==
    (musicVolume < VolumeMin \/ musicVolume > VolumeMax) =>
        /\ NoGenerationCalls
        /\ pc # "done"

C8_NoScenesNoCalls ==
    scenes = 0 =>
        /\ pc \in {"validate", "failed"}
        /\ pc = "failed" => error = "At least one scene is required"
        /\ ffmpegChecks = 0
        /\ refReads = 0
        /\ NoGenerationCalls
        /\ concatLog = <<>>
        /\ audioLog = <<>>
        /\ files \subseteq {MusicPath}

\* C8 witness: a run with an empty scene list has rejected.
C8_Witness ==
    /\ scenes = 0
    /\ pc = "failed"
    /\ referenceImages > 0
    /\ backgroundMusic

\* C9: when checkFfmpegInstalled reports FFmpeg missing the run fails before
\* any reference image is read and before any generation call.
C9_FfmpegMissingFailsFast ==
    ffmpegAvailable = "no" =>
        /\ pc = "failed"
        /\ error = "FFmpeg is not installed"
        /\ refReads = 0
        /\ NoGenerationCalls
        /\ concatLog = <<>>

\* C9 witness: FFmpeg was reported missing for a run with scenes and with
\* reference images to load.
C9_Witness ==
    /\ ffmpegAvailable = "no"
    /\ scenes >= 1
    /\ referenceImages \in 1 .. MaxReferenceImages

\* C10 as stated: for every transition kind, one clip is copied to the output
\* with no manifest and no ffmpeg process.
C10_SingleClipAlwaysCopied ==
    \A k \in 1 .. Len(concatLog) :
        Len(concatLog[k].paths) = 1 =>
            /\ concatLog[k].copies = <<[src |-> concatLog[k].paths[1], dst |-> concatLog[k].out]>>
            /\ concatLog[k].manifests = <<>>
            /\ concatLog[k].ffmpegRuns = <<>>

\* C10 amended: for crossfade and fade, one clip is copied to the output with
\* no manifest, no probe and no ffmpeg process; for cut, one clip is not
\* copied: a manifest of that one clip is written and one ffmpeg concat
\* process is started.
C10_SingleClipCopiedUnlessCut ==
    \A k \in 1 .. Len(concatLog) :
        LET call == concatLog[k]
        IN  Len(call.paths) = 1 =>
                /\ call.transition \in {"crossfade", "fade"} =>
                    /\ call.copies = <<[src |-> call.paths[1], dst |-> call.out]>>
                    /\ call.manifests = <<>>
                    /\ call.ffmpegRuns = <<>>
                    /\ call.probes = 0
                /\ call.transition = "cut" =>
                    /\ call.copies = <<>>
                    /\ call.manifests # <<>> =>
                        /\ call.manifests = <<(<<[file |-> call.paths[1]]>>)>>
                        /\ Len(call.ffmpegRuns) = 1
                        /\ call.ffmpegRuns[1].mode = "concat"
                        /\ call.ffmpegRuns[1].inputs = call.paths

\* C10 witness: concatenateVideos copied a single clip in crossfade mode.
C10_Witness ==
    /\ Len(concatLog) = 1
    /\ Len(concatLog[1].paths) = 1
    /\ concatLog[1].transition = "crossfade"
    /\ concatLog[1].ok
    /\ concatLog[1].out \in files


\* C15: every list handed to concatenateVideos is non-empty and holds exactly
\* the temporary clip paths of the scenes whose generation and file write both
\* succeeded, each once; it holds no null path and no path of a failed scene.
C15_OnlyIntactClipsPassed ==
    \A k \in 1 .. Len(concatLog) :
        LET call == concatLog[k]
        IN  /\ Len(call.paths) >= 1
            /\ Range(call.paths) = {TempPath(i, Epoch) : i \in Succeeded}
            /\ Len(call.paths) = Cardinality(Succeeded)
            /\ Range(call.paths) \subseteq written
            /\ NullPath \notin Range(call.paths)
            /\ \A i \in 0 .. scenes - 1 :
                sceneState[i] = "failed" => TempPath(i, Epoch) \notin Range(call.paths)

\* C15 witness: concatenateVideos was called after one scene failed and two
\* others were generated and written.
C15_Witness ==
    /\ Len(concatLog) = 1
    /\ Cardinality(Succeeded) = 2
    /\ \E i \in 0 .. scenes - 1 : sceneState[i] = "failed"

\* C16: a failure of ffmpeg inside concatenateVideos or addAudioTrack ends the
\* run with that call's error and without a result, nothing is called after
\* the failed call, and no call starts more than one ffmpeg process.
C16_ToolFailureIsFatalAndNotRetried ==
    /\ Len(concatLog) <= 1
    /\ Len(audioLog) <= 1
    /\ \A k \in 1 .. Len(concatLog) :
        /\ Len(concatLog[k].ffmpegRuns) <= 1
        /\ ~concatLog[k].ok =>
            /\ audioLog = <<>>
            /\ result = NoResult
            /\ thrown = "Failed to concatenate videos"
            /\ pc \in {"cleanup", "failed"}
            /\ pc = "failed" => error = "Failed to concatenate videos"
    /\ \A k \in 1 .. Len(audioLog) :
        /\ Len(audioLog[k].ffmpegRuns) <= 1
        /\ (~audioLog[k].ok /\ Len(audioLog[k].ffmpegRuns) = 1) =>
            /\ result = NoResult
            /\ pc \in {"cleanup", "failed"}
            /\ thrown = "Failed to add audio track"
            /\ pc = "failed" => error = "Failed to add audio track"

\* C16 witness: the ffmpeg process of addAudioTrack failed after a successful
\* concatenation, and the run has rejected.
C16_Witness ==
    /\ pc = "failed"
    /\ Len(concatLog) = 1
    /\ concatLog[1].ok
    /\ Len(audioLog) = 1
    /\ ~audioLog[1].ok
    /\ Len(audioLog[1].ffmpegRuns) = 1

\* C17: addAudioTrack is called exactly when background music was supplied and
\* concatenateVideos succeeded. Without music concatenateVideos writes to the
\* output path; with music it writes to a stitched path different from the
\* output path, and addAudioTrack reads that path and writes the output path.
C17_AudioMixedIffMusicAndConcatOk ==
    /\ \A k \in 1 .. Len(concatLog) :
        /\ ~backgroundMusic => concatLog[k].out = OutputPath
        /\ backgroundMusic => concatLog[k].out # OutputPath
    /\ \A k \in 1 .. Len(audioLog) :
        /\ backgroundMusic
        /\ Len(concatLog) = 1
        /\ concatLog[1].ok
        /\ audioLog[k].video = concatLog[1].out
        /\ audioLog[k].audio = MusicPath
        /\ audioLog[k].out = OutputPath
    /\ (Finished /\ backgroundMusic /\ Len(concatLog) = 1 /\ concatLog[1].ok) =>
        Len(audioLog) = 1

\* C17 witness: a run with music has returned after a concatenation into the
\* stitched path and one addAudioTrack call.
C17_Witness ==
    /\ pc = "done"
    /\ backgroundMusic
    /\ Len(concatLog) = 1
    /\ concatLog[1].out = StitchedTempPath
    /\ Len(audioLog) = 1
    /\ audioLog[1].ok

\* a direct call of concatenateVideos with the given transition and at least
\* two clips has started its ffmpeg process
Assembled(kind) ==
    /\ utilOutput.called
    /\ utilInput.fn = "concatenateVideos"
    /\ utilInput.transition = kind
    /\ utilInput.clips >= 2
    /\ Len(utilOutput.ffmpegRuns) = 1
GraphBuilt == utilOutput.ffmpegRuns[1].filter
Occurrences(label, labels) == Cardinality({k \in 1 .. Len(labels) : labels[k] = label})

\* C11: in fade mode with N >= 2 clips the concat stage is fed exactly N faded
\* segments, segment i being made from clip i, so the declared count n equals
\* the number of labels supplied, and every label a fade stage defines is
\* consumed exactly once.
C11_ConcatFedOneSegmentPerClip ==
    Assembled("fade") =>
        LET graph == GraphBuilt
            n == utilInput.clips
        IN  /\ graph.concatN = n
            /\ Len(graph.concatInputs) = graph.concatN
            /\ \A i \in 1 .. Len(graph.concatInputs) : graph.concatInputs[i].n = i - 1
            /\ \A s \in 1 .. Len(graph.fades) :
                Occurrences(graph.fades[s].out, graph.concatInputs) = 1

\* C12: in fade mode every fade-out starts at the probed duration of its clip
\* minus the transition duration, and every fade-in starts at 0.
C12_FadeOutCoversTail ==
    Assembled("fade") =>
        \A s \in 1 .. Len(GraphBuilt.fades) :
            LET stage == GraphBuilt.fades[s]
            IN  /\ stage.type = "out" =>
                    stage.st = utilOutput.env.durations[stage.in.n + 1] - stage.d
                /\ stage.type = "in" => stage.st = 0

\* d1 + ... + di
RECURSIVE SumOfDurations(_, _)
SumOfDurations(durations, i) ==
    IF i = 0 THEN 0 ELSE durations[i] + SumOfDurations(durations, i - 1)

\* C13: for a crossfade of N >= 2 clips with probed durations d1..dN and
\* transition duration t, the xfade stage of junction i (1 <= i <= N-1) has
\* offset (d1 + ... + di) - i*t.
C13_CrossfadeOffsets ==
    Assembled("crossfade") =>
        /\ Len(GraphBuilt.video) = utilInput.clips - 1
        /\ \A i \in 1 .. Len(GraphBuilt.video) :
            GraphBuilt.video[i].offset =
                SumOfDurations(utilOutput.env.durations, i) - i * utilInput.transitionDuration

\* C13 witness: three clips of durations 2.0 s, 8.0 s, 2.0 s were crossfaded
\* with the default transition duration.
C13_Witness ==
    /\ Assembled("crossfade")
    /\ utilInput.clips = 3
    /\ utilOutput.env.durations = <<ShortClipDuration, SceneDuration, ShortClipDuration>>
    /\ utilInput.transitionDuration = DefaultTransitionDuration
    /\ GraphBuilt.video[2].offset > GraphBuilt.video[1].offset

\* C18: addAudioTrack starts ffmpeg only when the video file exists, the audio
\* file exists and 0 <= volume <= 1; otherwise it rejects with a validation
\* error and starts no process. The volumes 0 and 1 are accepted.
C18_AudioInputsValidatedFirst ==
    (utilOutput.called /\ utilInput.fn = "addAudioTrack") =>
        LET valid == /\ utilInput.videoExists
                     /\ utilInput.audioExists
                     /\ utilInput.volume >= VolumeMin
                     /\ utilInput.volume <= VolumeMax
        IN  /\ ~valid =>
                /\ utilOutput.ffmpegRuns = <<>>
                /\ ~utilOutput.ok
                /\ utilOutput.error \in UtilityRejections
                /\ utilOutput.files = InputFiles(utilInput)
            /\ valid =>
                /\ Len(utilOutput.ffmpegRuns) = 1
                /\ utilOutput.error \notin UtilityRejections

\* C18 witness: addAudioTrack was called on two existing files with volume 0
\* and its ffmpeg process ran.
C18_Witness ==
    /\ utilOutput.called
    /\ utilInput.fn = "addAudioTrack"
    /\ utilInput.videoExists
    /\ utilInput.audioExists
    /\ utilInput.volume = VolumeMin
    /\ utilOutput.ok

\* C19: a cut of N >= 2 existing clips whose manifest could be written starts
\* exactly one ffmpeg process, in concat mode, on one manifest of exactly N
\* entries naming the clips in input order; no cut starts more than one
\* process or starts one without a manifest.
C19_CutUsesOneManifest ==
    (/\ utilOutput.called
     /\ utilInput.fn = "concatenateVideos"
     /\ utilInput.transition = "cut"
     /\ utilInput.clips >= 2) =>
        /\ Len(utilOutput.ffmpegRuns) <= 1
        /\ Len(utilOutput.manifests) = Len(utilOutput.ffmpegRuns)
        /\ utilOutput.copies = <<>>
        /\ (utilInput.missing = 0 /\ utilOutput.env.fsOk) =>
            /\ Len(utilOutput.ffmpegRuns) = 1
            /\ utilOutput.ffmpegRuns[1].mode = "concat"
            /\ Len(utilOutput.manifests[1]) = utilInput.clips
            /\ \A i \in 1 .. utilInput.clips :
                utilOutput.manifests[1][i] = [file |-> TempPath(i - 1, Epoch)]

\* C19 witness: three clips were joined by a cut and the call returned.
C19_Witness ==
    /\ Assembled("cut")
    /\ utilInput.clips = 3
    /\ utilOutput.ok

\* C20: the crossfade graph of N >= 2 clips has N-1 xfade and N-1 acrossfade
\* stages; stage i joins the output of stage i-1 (the first clip's stream for
\* i = 1) with the stream of clip i; every intermediate label is defined by one
\* stage and consumed by one stage; the last stage produces [outv] and [outa],
\* which are the two mapped outputs.
C20_CrossfadeChain ==
    Assembled("crossfade") =>
        LET graph == GraphBuilt
            n == utilInput.clips
            Chained(stages, first, input(_), out) ==
                /\ Len(stages) = n - 1
                /\ \A i \in 1 .. Len(stages) :
                    /\ stages[i].in1 = IF i = 1 THEN first ELSE stages[i - 1].out
                    /\ stages[i].in2 = input(i)
                    /\ stages[i].out = out <=> i = n - 1
                    /\ \A j \in 1 .. Len(stages) : stages[j].out = stages[i].out => j = i
                    /\ i < n - 1 =>
                        /\ \A k \in 0 .. n - 1 : stages[i].out # input(k)
                        /\ Cardinality({j \in 1 .. Len(stages) : stages[j].in1 = stages[i].out})
                           + Cardinality({j \in 1 .. Len(stages) : stages[j].in2 = stages[i].out})
                           = 1
                    /\ stages[i].in1 # out
                    /\ stages[i].in2 # out
        IN  /\ Chained(graph.video, InputVideo(0), InputVideo, OutV)
            /\ Chained(graph.audio, InputAudio(0), InputAudio, OutA)
            /\ graph.maps = <<OutV, OutA>>

\* C20 witness: three clips were crossfaded through the intermediate labels
\* [v1] and [a1].
C20_Witness ==
    /\ Assembled("crossfade")
    /\ utilInput.clips = 3
    /\ GraphBuilt.video[1].out = VideoLabel(1)
    /\ GraphBuilt.audio[1].out = AudioLabel(1)
    /\ GraphBuilt.video[2].in1 = VideoLabel(1)

\* C14: two runs executing at the same time never write the same temporary
\* clip path, so every clip a run has written and not yet cleaned up is still
\* on disk with that run's content.
C14_RunsNeverShareTempPath ==
    /\ runWritten[1] \cap runWritten[2] = {}
    /\ \A r \in Runs :
        runNext[r] <= RunScenes =>
            \A tempPath \in runWritten[r] : [path |-> tempPath, owner |-> r] \in tmpOwner

\* C22: the returned sceneTimes has one entry per scene, failed scenes
\* included, numbered 1..K in scene order, whichever scenes failed and in
\* whatever order they completed.
C22_SceneTimesCoverEveryScene ==
    pc = "done" =>
        /\ Len(result.sceneTimes) = scenes
        /\ \A k \in 1 .. Len(result.sceneTimes) : result.sceneTimes[k] = k

\* C22 witness: a parallel run returned after its first scene failed and its
\* last scene completed before the others.
C22_Witness ==
    /\ pc = "done"
    /\ scenes = 3
    /\ sceneState[0] = "failed"
    /\ completionOrder[1] = 2

\* C23: with 1 to 3 reference images supplied every generation call is
\* generateVideoWithReferences carrying all loaded references and generateVideo
\* is never called; with none supplied every call is generateVideo.
C23_ReferenceVariantUsed ==
    \A i \in AllIndices :
        genCalls[i] >= 1 =>
            /\ referenceImages \in 1 .. MaxReferenceImages =>
                /\ genKind[i].fn = "generateVideoWithReferences"
                /\ genKind[i].references = referenceImages
                /\ loadedReferences = referenceImages
            /\ referenceImages \in {NoRefs, 0} =>
                /\ genKind[i].fn = "generateVideo"
                /\ genKind[i].references = 0
            /\ referenceImages \in {NoRefs} \cup (0 .. MaxReferenceImages)

\* C23 witness: a two-scene run with one reference image has issued both
\* generation calls.
C23_Witness ==
    /\ referenceImages = 1
    /\ scenes = 2
    /\ genCalls[0] = 1
    /\ genCalls[1] = 1
    /\ genKind[1].fn = "generateVideoWithReferences"

\* scenes whose generation call is in flight or whose clip is being written
InFlight == {i \in AllIndices : sceneState[i] \in {"generating", "writing"}}
Settled == {i \in AllIndices : sceneState[i] \in {"ok", "failed"}}

C28_StitchedFileRemoved ==
    (Finished /\ backgroundMusic) => StitchedTempPath \notin files

\* C30: concatenateVideos is called at most once and only when every scene
\* has settled, and no temporary scene clip is unlinked before concatenation,
\* and audio mixing when it runs, has returned or thrown.
C30_AssemblyAfterGenerationBeforeCleanup ==
    /\ Len(concatLog) <= 1
    /\ Len(concatLog) = 1 =>
        /\ Settled = 0 .. scenes - 1
        /\ Len(sceneResults) = scenes
    /\ (\E tempPath \in written : tempPath \in unlinked) =>
        /\ Len(concatLog) = 1
        /\ (backgroundMusic /\ concatLog[1].ok) => Len(audioLog) = 1
    /\ pc \in {"concat", "audio"} => written \subseteq files

\* C30 witness: a run with music has removed its two clips after both
\* concatenateVideos and addAudioTrack returned.
C30_Witness ==
    /\ pc = "done"
    /\ backgroundMusic
    /\ Cardinality(written) = 2
    /\ written \subseteq unlinked
    /\ Len(audioLog) = 1

\* a direct crossfade call on at least two clips that all exist
CrossfadeCalled ==
    /\ utilOutput.called
    /\ utilInput.fn = "concatenateVideos"
    /\ utilInput.transition = "crossfade"
    /\ utilInput.clips >= 2
    /\ utilInput.missing = 0

\* C27: in crossfade mode with N >= 2 clips the ffmpeg process is started only
\* after the duration of each of the N clips was probed; when a probe fails no
\* further clip is probed, no ffmpeg process is started and concatenateVideos
\* rejects with its assembly error.
C27_ProbedBeforeAssembly ==
    CrossfadeCalled =>
        /\ \A k \in 1 .. Len(utilOutput.ffmpegRuns) :
            utilOutput.ffmpegRuns[k].probed = utilInput.clips
        /\ utilOutput.env.probesOk < utilInput.clips =>
            /\ utilOutput.ffmpegRuns = <<>>
            /\ utilOutput.probes = utilOutput.env.probesOk + 1
            /\ ~utilOutput.ok
            /\ utilOutput.error = "Failed to concatenate videos"
            /\ OutputPath \notin utilOutput.files

\* C27 witness: of three clips the third could not be probed, and the call
\* rejected after three ffprobe calls.
C27_Witness ==
    /\ CrossfadeCalled
    /\ utilInput.clips = 3
    /\ utilOutput.env.probesOk = 2
    /\ utilOutput.probes = 3
    /\ ~utilOutput.ok

\* C29: when the transition duration is shorter than every probed clip
\* duration, the crossfade offsets are positive and strictly increasing from
\* junction to junction; and whatever the transition duration is, a crossfade
\* whose probes succeeded starts its ffmpeg process: concatenateVideos never
\* rejects the value itself.
C29_OffsetsPositiveIncreasing ==
    CrossfadeCalled =>
        /\ utilOutput.env.probesOk = utilInput.clips => Len(utilOutput.ffmpegRuns) = 1
        /\ (/\ Len(utilOutput.ffmpegRuns) = 1
            /\ \A i \in 1 .. utilInput.clips :
                utilInput.transitionDuration < utilOutput.env.durations[i]) =>
            \A i \in 1 .. Len(GraphBuilt.video) :
                /\ GraphBuilt.video[i].offset > 0
                /\ i > 1 => GraphBuilt.video[i].offset > GraphBuilt.video[i - 1].offset

\* C29 witness: three clips, the shortest 2.0 s long, were crossfaded with a
\* transition of 0.5 s.
C29_Witness ==
    /\ CrossfadeCalled
    /\ Len(utilOutput.ffmpegRuns) = 1
    /\ utilInput.clips = 3
    /\ utilInput.transitionDuration = DefaultTransitionDuration
    /\ utilOutput.env.durations = <<SceneDuration, ShortClipDuration, SceneDuration>>
    /\ GraphBuilt.video[1].offset > 0

CallSettled == genPc \in {"resolved", "rejected"}
CollaboratorErrors == {"generateVideos failed", "getVideosOperation failed"}

\* C21: once the job reports done the provider call resolves or rejects; when
\* it has settled, the number of status checks equals the number of not-done
\* statuses the poll loop observed; an operation created done is never
\* checked.
C21_PollTerminatesWhenJobDone ==
    /\ (jobDone ~> CallSettled)
    /\ [](CallSettled => statusChecks = notDoneSeen)
    /\ [](createdStatus = "done" => statusChecks = 0 /\ notDoneSeen = 0)
    /\ [](statusChecks <= notDoneSeen /\ notDoneSeen <= statusChecks + 1)

\* C21 witness: the call resolved after two status checks, the first of which
\* found the job still running.
C21_Witness ==
    /\ genPc = "resolved"
    /\ createdStatus = "pending"
    /\ statusChecks = 2
    /\ notDoneSeen = 2

\* C24: the prompt of a scene is the scene text, prefixed by
\* "<characterDescription>. " when a character description is present, and
\* that in turn prefixed by "<style> style: " when a style is present, so the
\* order is style, character description, scene text; with neither present the
\* prompt is the scene text alone.
C24_PromptOrder ==
    genPc # "prompt" =>
        LET styled == genInput.style # ""
            described == genInput.characterDescription # ""
        IN  /\ (styled /\ described) =>
                prompt = <<genInput.style, " style: ", genInput.characterDescription, ". ",
                           genInput.sceneDescription>>
            /\ (styled /\ ~described) =>
                prompt = <<genInput.style, " style: ", genInput.sceneDescription>>
            /\ (~styled /\ described) =>
                prompt = <<genInput.characterDescription, ". ", genInput.sceneDescription>>
            /\ (~styled /\ ~described) => prompt = <<genInput.sceneDescription>>

\* C24 witness: the prompt "noir style: Detective in trench coat. Walking
\* through city" was sent.
C24_Witness ==
    /\ genPc = "create"
    /\ prompt = <<"noir", " style: ", "Detective in trench coat", ". ", "Walking through city">>

\* C26: pollOperation never gives up on a job that is not done: after any
\* number of not-done statuses it sleeps and checks again, so the provider
\* call resolves only after the job reported done and rejects only after that
\* or after a request to the service itself failed; and the scene loop leaves
\* its await, and the run goes past the loop, only after the call has settled.
C26_NoPollLimit ==
    /\ genPc = "resolved" => operationDone /\ jobDone
    /\ (genPc = "rejected" /\ genError \notin CollaboratorErrors) => operationDone /\ jobDone
    /\ (genPc \in {"response", "download"}) => operationDone
    /\ (createdStatus = "pending" /\ ~jobDone /\ ~CallSettled) =>
        genPc \in {"loop", "sleep", "check"}
    /\ callerPc \in {"writeFile", "catch", "afterLoop"} => CallSettled
    /\ (~CallSettled /\ genPc # "prompt") => callerPc = "await"

\* C26 witness: the job has answered not done to every check made so far and
\* the call is waiting for its next check, the scene loop still awaiting it.
C26_Witness ==
    /\ genPc = "sleep"
    /\ ~jobDone
    /\ statusChecks = MaxPolls - 1
    /\ notDoneSeen = MaxPolls
    /\ callerPc = "await"

====
